---- MODULE Spec2Model ----
(***************************************************************************)
(* Model of src/operations/lightning.rs: the LNDHub client operations      *)
(* create_wallet, auth, create_invoice, decode_invoice, get_balance,       *)
(* pay_invoice and get_txs.                                                *)
(*                                                                         *)
(* Every async operation is two steps: the code up to the `.await` on the  *)
(* transport call (the request is built and issued), and the code after it *)
(* (`?` on the transport result, serde_json::from_str, `?`, Ok(..)).       *)
(* decode_invoice is synchronous and is one step.                          *)
(*                                                                         *)
(* A response body is modelled as the JSON tree it denotes, or Malformed   *)
(* when the text is not JSON.  Deserialize follows what                    *)
(* #[derive(Deserialize)] generates for the types of this file.            *)
(***************************************************************************)
EXTENDS Integers, Sequences, FiniteSets, TLC

\* Number of call frames the caller may have alive at once.
NumCalls == 2

Calls == 1..NumCalls

(***************************************************************************)
(* State: one record of fields per call frame                              *)
(***************************************************************************)
VARIABLES
    pc,       \* "idle", "awaiting" (suspended on the transport call), "returned"
    op,       \* the operation the frame runs
    args,     \* its arguments
    sent,     \* the requests it has handed to the transport
    recv,     \* the transport outcome it was resumed with
    parsed,   \* the number of serde_json::from_str calls it made
    result    \* what it returned

vars == <<pc, op, args, sent, recv, parsed, result>>

(***************************************************************************)
(* Option<T>, Result<T>                                                    *)
(***************************************************************************)
None == <<>>
Some(x) == <<x>>

Ok(v) == [ok |-> TRUE, val |-> v]
Err(kind) == [ok |-> FALSE, err |-> kind]

\* a frame that has not produced / received anything yet
Pending == Err("pending")

(***************************************************************************)
(* JSON trees                                                              *)
(***************************************************************************)
Malformed == [t |-> "malformed"]
JNull == [t |-> "null"]
JStr(s) == [t |-> "str", v |-> s]
JNum(n) == [t |-> "num", n |-> n]
JBool(b) == [t |-> "bool", b |-> b]
JObj(fields) == [t |-> "obj", o |-> fields]
JArr(items) == [t |-> "arr", a |-> items]
NoFields == [k \in {} |-> JNull]

(***************************************************************************)
(* The types of the file, as field lists <<name, type>>                    *)
(***************************************************************************)
MoneyFields == << <<"value", "String">>, <<"currency", "String">> >>

TokensFields == << <<"refresh", "String">>, <<"token", "String">> >>

AddInvoiceResponseFields ==
    << <<"req_id", "String">>, <<"uid", "u32">>,
       <<"payment_request", "Option<String>">>, <<"meta", "Option<String>">>,
       <<"metadata", "Option<String>">>, <<"amount", "Money">>,
       <<"rate", "Option<String>">>, <<"currency", "String">>,
       <<"target_account_currency", "Option<String>">>,
       <<"account_id", "Option<String>">>, <<"error", "Option<String>">>,
       <<"fees", "Option<String>">> >>

BalancesResponseFields ==
    << <<"uid", "u32">>, <<"accounts", "HashMap<String, Account>">>,
       <<"error", "Option<String>">> >>

AccountFields ==
    << <<"account_id", "String">>, <<"balance", "String">>, <<"currency", "String">> >>

TransactionFields ==
    << <<"txid", "String">>, <<"fee_txid", "Option<String>">>,
       <<"outbound_txid", "Option<String>">>, <<"inbound_txid", "Option<String>">>,
       <<"created_at", "u64">>, <<"outbound_amount", "String">>,
       <<"inbound_amount", "String">>, <<"outbound_account_id", "String">>,
       <<"inbound_account_id", "String">>, <<"outbound_uid", "u32">>,
       <<"inbound_uid", "u32">>, <<"outbound_currency", "String">>,
       <<"inbound_currency", "String">>, <<"exchange_rate", "String">>,
       <<"tx_type", "String">>, <<"fees", "String">>,
       <<"reference", "Option<String>">> >>

PayInvoiceResponseFields ==
    << <<"payment_hash", "String">>, <<"uid", "u32">>, <<"success", "bool">>,
       <<"currency", "String">>, <<"payment_request", "Option<String>">>,
       <<"amount", "Option<Money>">>, <<"fees", "Option<Money>">>,
       <<"error", "Option<String>">>, <<"payment_preimage", "Option<String>">>,
       <<"destination", "Option<String>">>, <<"description", "Option<String>">> >>

\* the two variants of the untagged enum CreateWalletResponse, in order
UsernameFields == << <<"username", "String">> >>
ErrorFields == << <<"error", "String">> >>

StructTypes ==
    {"Money", "Tokens", "AddInvoiceResponse", "BalancesResponse", "Account",
     "Transaction", "PayInvoiceResponse", "Username", "Error"}

Fields(type) ==
    CASE type = "Money" -> MoneyFields
      [] type = "Tokens" -> TokensFields
      [] type = "AddInvoiceResponse" -> AddInvoiceResponseFields
      [] type = "BalancesResponse" -> BalancesResponseFields
      [] type = "Account" -> AccountFields
      [] type = "Transaction" -> TransactionFields
      [] type = "PayInvoiceResponse" -> PayInvoiceResponseFields
      [] type = "Username" -> UsernameFields
      [] type = "Error" -> ErrorFields

OptionTypes == {"Option<String>", "Option<Money>"}

Inner(type) == IF type = "Option<String>" THEN "String" ELSE "Money"

DecodeError == Err("decode")

(***************************************************************************)
(* serde: what #[derive(Deserialize)] does with a JSON tree.               *)
(*  - a struct is read from an object by field name: unknown keys are      *)
(*    ignored, a missing key is an error unless the field is an Option     *)
(*    (then None); it is also read from an array, positionally, when the   *)
(*    array has exactly one element per field;                             *)
(*  - Option<T> reads null as None and anything else as Some(T);           *)
(*  - an untagged enum returns the first variant, in declaration order,    *)
(*    that deserializes.                                                   *)
(* Numbers of the model stay below 2^31, so the upper limit of u32/u64 is  *)
(* never reached; a negative number is rejected.                           *)
(***************************************************************************)
FieldNames(fields) == {fields[i][1] : i \in 1..Len(fields)}

FieldIndex(fields, name) == CHOOSE i \in 1..Len(fields) : fields[i][1] = name

RECURSIVE Deserialize(_, _)
Deserialize(type, v) ==
    CASE type = "String" ->
            IF v.t = "str" THEN Ok(v.v) ELSE DecodeError
      [] type \in {"u32", "u64"} ->
            IF v.t = "num" /\ v.n >= 0 THEN Ok(v.n) ELSE DecodeError
      [] type = "bool" ->
            IF v.t = "bool" THEN Ok(v.b) ELSE DecodeError
      [] type \in OptionTypes ->
            IF v.t = "null" THEN Ok(None)
            ELSE LET r == Deserialize(Inner(type), v)
                 IN  IF r.ok THEN Ok(Some(r.val)) ELSE DecodeError
      [] type \in StructTypes ->
            LET fields == Fields(type)
                byName(i) ==
                    IF fields[i][1] \in DOMAIN v.o
                    THEN Deserialize(fields[i][2], v.o[fields[i][1]])
                    ELSE IF fields[i][2] \in OptionTypes THEN Ok(None)
                    ELSE DecodeError
                byPos(i) == Deserialize(fields[i][2], v.a[i])
            IN  IF v.t = "obj" THEN
                    IF \E i \in 1..Len(fields) : ~byName(i).ok THEN DecodeError
                    ELSE Ok([n \in FieldNames(fields) |-> byName(FieldIndex(fields, n)).val])
                ELSE IF v.t = "arr" /\ Len(v.a) = Len(fields) THEN
                    IF \E i \in 1..Len(fields) : ~byPos(i).ok THEN DecodeError
                    ELSE Ok([n \in FieldNames(fields) |-> byPos(FieldIndex(fields, n)).val])
                ELSE DecodeError
      [] type = "HashMap<String, Account>" ->
            IF v.t # "obj" THEN DecodeError
            ELSE IF \E k \in DOMAIN v.o : ~Deserialize("Account", v.o[k]).ok THEN DecodeError
            ELSE Ok([k \in DOMAIN v.o |-> Deserialize("Account", v.o[k]).val])
      [] type = "Vec<Transaction>" ->
            IF v.t # "arr" THEN DecodeError
            ELSE IF \E i \in 1..Len(v.a) : ~Deserialize("Transaction", v.a[i]).ok THEN DecodeError
            ELSE Ok([i \in 1..Len(v.a) |-> Deserialize("Transaction", v.a[i]).val])
      [] type = "CreateWalletResponse" ->
            LET asUsername == Deserialize("Username", v)
                asError == Deserialize("Error", v)
            IN  IF asUsername.ok
                THEN Ok([variant |-> "Username", username |-> asUsername.val.username])
                ELSE IF asError.ok
                THEN Ok([variant |-> "Error", error |-> asError.val.error])
                ELSE DecodeError

\* serde_json::from_str::<T>(&response)
FromStr(type, body) ==
    IF body.t = "malformed" THEN DecodeError ELSE Deserialize(type, body)

(***************************************************************************)
(* create_invoice: `amount as f32 / 100_000_000.0` and `to_string()`.      *)
(*                                                                         *)
(* An f32 is [m, e], the value m * 2^e with 2^23 <= m < 2^24 (m = 0 for    *)
(* zero).  100_000_000 = 2^8 * 5^8, so a quotient k / 10^8 is computed by  *)
(* long division by 5^8, one bit at a time, and rounded to nearest.        *)
(* f32's Display prints the shortest decimal that parses back to the same  *)
(* f32 (the closest such decimal when several have that length), without   *)
(* an exponent.  Amounts of the model stay below 2^30, so that every       *)
(* intermediate value fits TLC's integers; the printed decimal then has at *)
(* most 8 fractional digits and is handled as a whole number of 10^-8.     *)
(***************************************************************************)
Pow2(k) == 2 ^ k
Pow10(k) == 10 ^ k

\* 5^8: 100_000_000.0 = 2^8 * 5^8
SatsPerBtcOdd == 390625

RECURSIVE BitLen(_)
BitLen(n) == IF n = 0 THEN 0 ELSE 1 + BitLen(n \div 2)

\* `amount as f32`: the nearest f32 (ties to even), as the integer it denotes
F32FromU32(n) ==
    IF BitLen(n) <= 24 THEN n
    ELSE LET unit == Pow2(BitLen(n) - 24)
             low  == n % unit
             base == n - low
             half == unit \div 2
             up   == low > half \/ (low = half /\ (base \div unit) % 2 = 1)
         IN  IF up THEN base + unit ELSE base

RECURSIVE F32Normalize(_, _, _)
F32Normalize(t, r, e) ==
    IF t >= Pow2(23) THEN
        LET m == IF 2 * r > SatsPerBtcOdd THEN t + 1 ELSE t
        IN  IF m = Pow2(24) THEN [m |-> Pow2(23), e |-> e + 1] ELSE [m |-> m, e |-> e]
    ELSE F32Normalize(2 * t + (IF 2 * r >= SatsPerBtcOdd THEN 1 ELSE 0),
                      (2 * r) % SatsPerBtcOdd, e - 1)

\* the f32 nearest to k / 100_000_000, for an integer k
F32DivSats(k) ==
    IF k = 0 THEN [m |-> 0, e |-> 0]
    ELSE F32Normalize(k \div SatsPerBtcOdd, k % SatsPerBtcOdd, -8)

\* floor(m * 5^8 / 2^g), the product taken in 12-bit limbs
FloorScaled(m, g) ==
    LET m1 == m \div 4096
        m0 == m % 4096
        d1 == SatsPerBtcOdd \div 4096
        d0 == SatsPerBtcOdd % 4096
        p0 == m0 * d0
        p1 == m1 * d0 + m0 * d1 + p0 \div 4096
        c2 == m1 * d1 + p1 \div 4096
        low == ((p1 % 4096) * 4096) + (p0 % 4096)
    IN  IF g >= 24 THEN (IF g - 24 > 30 THEN 0 ELSE c2 \div Pow2(g - 24))
        ELSE c2 * Pow2(24 - g) + low \div Pow2(g)

IsWholeSats(m, g) == g < 24 /\ m % Pow2(g) = 0

\* the decimal x * 10^-8 parses back to the f32 q
RoundTrips(x, q) == x > 0 /\ F32DivSats(x) = q

\* the shortest decimal that parses back to q, in units of 10^-8:
\* the multiple of the largest 10^j with that property, the one closest to q
RECURSIVE ShortestSats(_, _)
ShortestSats(q, j) ==
    LET g    == -(q.e + 8)
        fl   == FloorScaled(q.m, g)
        xlo  == (fl \div Pow10(j)) * Pow10(j)
        xhi  == IF IsWholeSats(q.m, g) /\ fl % Pow10(j) = 0 THEN xlo ELSE xlo + Pow10(j)
        okLo == RoundTrips(xlo, q)
        okHi == RoundTrips(xhi, q)
        twoF == FloorScaled(q.m, g - 1)
    IN  IF okLo /\ okHi THEN (IF twoF >= xlo + xhi THEN xhi ELSE xlo)
        ELSE IF okLo THEN xlo
        ELSE IF okHi THEN xhi
        ELSE ShortestSats(q, j - 1)

Digit(d) ==
    CASE d = 0 -> "0" [] d = 1 -> "1" [] d = 2 -> "2" [] d = 3 -> "3" [] d = 4 -> "4"
      [] d = 5 -> "5" [] d = 6 -> "6" [] d = 7 -> "7" [] d = 8 -> "8" [] d = 9 -> "9"

RECURSIVE IntDigits(_)
IntDigits(n) == IF n < 10 THEN <<Digit(n)>> ELSE Append(IntDigits(n \div 10), Digit(n % 10))

RECURSIVE FracDigits(_, _)
FracDigits(f, width) ==
    IF f = 0 THEN <<>>
    ELSE <<Digit(f \div Pow10(width - 1))>> \o FracDigits(f % Pow10(width - 1), width - 1)

\* f32::to_string(): the text, as its sequence of characters
F32ToString(q) ==
    IF q.m = 0 THEN <<"0">>
    ELSE LET x == ShortestSats(q, 9)
             whole == x \div Pow10(8)
             frac  == x % Pow10(8)
         IN  IF frac = 0 THEN IntDigits(whole)
             ELSE IntDigits(whole) \o <<".">> \o FracDigits(frac, 8)

\* let amount = amount as f32 / 100_000_000.0; let amt_str = amount.to_string();
AmountString(amount) == F32ToString(F32DivSats(F32FromU32(amount)))

(***************************************************************************)
(* Requests: crate::util::get and crate::util::post_json_auth              *)
(***************************************************************************)
LNDHUB_ENDPOINT == "{LNDHUB_ENDPOINT}"

Url(path, query) == [path |-> LNDHUB_ENDPOINT \o path, query |-> query]

get(url, token) == [method |-> "GET", url |-> url, body |-> None, token |-> token]

post_json_auth(url, body, token) ==
    [method |-> "POST", url |-> url, body |-> body, token |-> token]

create_wallet_request(username, password) ==
    post_json_auth(Url("/create", <<>>),
                   Some([username |-> username, password |-> password]), None)

auth_request(username, password) ==
    post_json_auth(Url("/auth", <<>>),
                   Some([username |-> username, password |-> password]), None)

create_invoice_request(description, amount, token) ==
    get(Url("/addinvoice",
            << <<"amount", AmountString(amount)>>, <<"meta", description>> >>),
        Some(token))

\* variant of get_balance_request: the token kept from the first frame is sent
get_balance_request_cached(token) ==
    get(Url("/balance", <<>>),
        Some(IF "token" \in DOMAIN args[1] THEN args[1].token ELSE token))

get_balance_request(token) == get(Url("/balance", <<>>), Some(token))

pay_invoice_request(payment_request, token) ==
    post_json_auth(Url("/payinvoice", <<>>),
                   Some([payment_request |-> payment_request]), Some(token))

get_txs_request(token) == get(Url("/gettxs", <<>>), Some(token))

\* variant of Issue: the request is handed to the transport a second time
IssueTwice(log, request) == Append(Append(log, request), request)

\* the transport call made by an operation: one request handed to the transport
Issue(log, request) == Append(log, request)

(***************************************************************************)
(* The code after the `.await`: what each operation returns for a          *)
(* transport outcome, Err("transport") or Ok(body).                        *)
(***************************************************************************)
\* variant of create_wallet_ret: a body that matches no variant is taken as a created wallet
create_wallet_ret_default(response) ==
    IF ~response.ok THEN response
    ELSE LET res == FromStr("CreateWalletResponse", response.val)
         IN  IF ~res.ok THEN Ok([variant |-> "Username", username |-> ""]) ELSE Ok(res.val)

create_wallet_ret(response) ==
    IF ~response.ok THEN response
    ELSE LET res == FromStr("CreateWalletResponse", response.val)
         IN  IF ~res.ok THEN res ELSE Ok(res.val)

\* variant of auth_ret: the two strings are exchanged
auth_ret_swapped(response) ==
    IF ~response.ok THEN response
    ELSE LET tokens == FromStr("Tokens", response.val)
         IN  IF ~tokens.ok THEN tokens
             ELSE Ok([refresh |-> tokens.val.token, token |-> tokens.val.refresh])

auth_ret(response) ==
    IF ~response.ok THEN response
    ELSE LET tokens == FromStr("Tokens", response.val)
         IN  IF ~tokens.ok THEN tokens ELSE Ok(tokens.val)

\* variant of create_invoice_ret: the error field of the response is not carried over
create_invoice_ret_no_error(response) ==
    IF ~response.ok THEN response
    ELSE LET invoice == FromStr("AddInvoiceResponse", response.val)
         IN  IF ~invoice.ok THEN invoice ELSE Ok([invoice.val EXCEPT !.error = None])

create_invoice_ret(response) ==
    IF ~response.ok THEN response
    ELSE LET invoice == FromStr("AddInvoiceResponse", response.val)
         IN  IF ~invoice.ok THEN invoice ELSE Ok(invoice.val)

\* variant of get_balance_ret: an account equal to an earlier one is not pushed
get_balance_ret_dedup(response, order) ==
    IF ~response.ok THEN response
    ELSE LET balance == FromStr("BalancesResponse", response.val)
             acct(i) == balance.val.accounts[order[i]]
             keep == {i \in 1..Len(order) : \A j \in 1..(i - 1) : acct(j) # acct(i)}
             nth(n) == CHOOSE i \in keep : Cardinality({j \in keep : j <= i}) = n
         IN  IF ~balance.ok THEN balance
             ELSE Ok([n \in 1..Cardinality(keep) |-> acct(nth(n))])

\* `order` is the order in which the HashMap hands out its entries
get_balance_ret(response, order) ==
    IF ~response.ok THEN response
    ELSE LET balance == FromStr("BalancesResponse", response.val)
         IN  IF ~balance.ok THEN balance
             ELSE Ok([i \in 1..Len(order) |-> balance.val.accounts[order[i]]])

\* variant of pay_invoice_ret: the error field of the response is not carried over
pay_invoice_ret_no_error(response) ==
    IF ~response.ok THEN response
    ELSE LET parsed_response == FromStr("PayInvoiceResponse", response.val)
         IN  IF ~parsed_response.ok THEN parsed_response
             ELSE Ok([parsed_response.val EXCEPT !.error = None])

pay_invoice_ret(response) ==
    IF ~response.ok THEN response
    ELSE LET parsed_response == FromStr("PayInvoiceResponse", response.val)
         IN  IF ~parsed_response.ok THEN parsed_response ELSE Ok(parsed_response.val)

\* variant of get_txs_ret: a body that does not parse gives the empty list
get_txs_ret_default(response) ==
    IF ~response.ok THEN response
    ELSE LET txs == FromStr("Vec<Transaction>", response.val)
         IN  IF ~txs.ok THEN Ok(<<>>) ELSE Ok(txs.val)

get_txs_ret(response) ==
    IF ~response.ok THEN response
    ELSE LET txs == FromStr("Vec<Transaction>", response.val)
         IN  IF ~txs.ok THEN txs ELSE Ok(txs.val)

\* serde_json::from_str is reached only past the `?` on the transport result
from_str_calls(response) == IF response.ok THEN 1 ELSE 0

\* the iteration orders of a HashMap with the given keys
IterationOrders(keys) ==
    {s \in [1..Cardinality(keys) -> keys] :
        \A i, j \in 1..Cardinality(keys) : i # j => s[i] # s[j]}

BalanceOrders(response) ==
    IF response.ok /\ FromStr("BalancesResponse", response.val).ok
    THEN IterationOrders(DOMAIN FromStr("BalancesResponse", response.val).val.accounts)
    ELSE {<<>>}

(***************************************************************************)
(* decode_invoice: lightning_invoice::Invoice::from_str is an external     *)
(* BOLT11 parser; it is an oracle here, accepting the strings of           *)
(* WellFormedInvoices.                                                     *)
(***************************************************************************)
WellFormedInvoices == {"lnbc1valid"}

InvoiceFromStr(payment_request) ==
    IF payment_request \in WellFormedInvoices
    THEN Ok([bolt11 |-> payment_request])
    ELSE Err("invalid_invoice")

\* variant of decode_invoice_ret: the parser's error is swallowed
decode_invoice_ret_lenient(payment_request) ==
    LET invoice == InvoiceFromStr(payment_request)
    IN  IF ~invoice.ok THEN Ok([bolt11 |-> payment_request]) ELSE Ok(invoice.val)

decode_invoice_ret(payment_request) ==
    LET invoice == InvoiceFromStr(payment_request)
    IN  IF ~invoice.ok THEN invoice ELSE Ok(invoice.val)

(***************************************************************************)
(* Inputs of the caller                                                    *)
(***************************************************************************)
Usernames == {"alice"}
Passwords == {"pw"}
Tokens == {"t1", "t2"}
Descriptions == {"coffee"}
Amounts == {0, 1, 3, 12345, 12500001, 12500002, 16777216, 16777217, 100000000, 123456789}
PaymentRequests == {"lnbc1valid", "not-an-invoice"}

\* the inputs used when calls run concurrently
ConcAmounts == {1}
ConcPaymentRequests == {"lnbc1valid"}

(***************************************************************************)
(* Outcomes of the transport call: an error, or the body of the response   *)
(***************************************************************************)
TransportError == Err("transport")

Outcomes(bodies) == {TransportError} \cup {Ok(b) : b \in bodies}

CreateWalletBodies ==
    { JObj([username |-> JStr("alice")]),
      JObj([error |-> JStr("exists")]),
      JObj(NoFields),
      JObj([username |-> JStr("alice"), error |-> JStr("exists")]),
      JObj([username |-> JNum(1)]),
      JObj([username |-> JNull, error |-> JStr("exists")]),
      Malformed }

AuthBodies ==
    { JObj([refresh |-> JStr("r1"), token |-> JStr("t1")]),
      JObj([refresh |-> JStr(""), token |-> JStr("")]),
      JObj([refresh |-> JStr("r1"), token |-> JStr("")]),
      JObj([token |-> JStr("t1")]),
      JObj([refresh |-> JStr("r1"), token |-> JNum(5)]),
      JObj([error |-> JStr("bad auth")]),
      Malformed }

MoneyJson == JObj([value |-> JStr("1"), currency |-> JStr("BTC")])

InvoiceJson(extra) ==
    JObj(extra @@ [req_id |-> JStr("r"), uid |-> JNum(1), amount |-> MoneyJson,
                   currency |-> JStr("BTC")])

AddInvoiceBodies ==
    { InvoiceJson([payment_request |-> JStr("lnbc1valid")]),
      InvoiceJson([error |-> JStr("no funds")]),
      InvoiceJson([payment_request |-> JNull, error |-> JStr("no funds")]),
      InvoiceJson(NoFields),
      InvoiceJson([payment_request |-> JStr("lnbc1valid"), error |-> JStr("")]),
      JObj([error |-> JStr("bad auth")]),
      Malformed }

AccountJson(id, balance) ==
    JObj([account_id |-> JStr(id), balance |-> JStr(balance), currency |-> JStr("BTC")])

BalanceBodies ==
    { JObj([uid |-> JNum(1), accounts |-> JObj([a |-> AccountJson("a", "100")])]),
      JObj([uid |-> JNum(1), accounts |-> JObj(NoFields)]),
      JObj([uid |-> JNum(1),
            accounts |-> JObj([a |-> AccountJson("a", "100"), b |-> AccountJson("b", "7")])]),
      JObj([uid |-> JNum(1),
            accounts |-> JObj([a |-> AccountJson("a", "100"), z |-> AccountJson("a", "100"),
                               b |-> AccountJson("b", "7")])]),
      JObj([uid |-> JNum(1), accounts |-> JObj(NoFields), error |-> JStr("bad auth")]),
      JObj([uid |-> JNum(1), accounts |-> JObj([a |-> JObj([account_id |-> JStr("a")])])]),
      JObj([uid |-> JNum(1)]),
      Malformed }

PaymentJson(success, extra) ==
    JObj(extra @@ [payment_hash |-> JStr("h"), uid |-> JNum(1), success |-> JBool(success),
                   currency |-> JStr("BTC")])

PayInvoiceBodies ==
    { PaymentJson(TRUE, [payment_preimage |-> JStr("pre"), amount |-> MoneyJson,
                         fees |-> JNull]),
      PaymentJson(FALSE, [error |-> JStr("insufficient funds")]),
      PaymentJson(FALSE, NoFields),
      PaymentJson(TRUE, [error |-> JStr("insufficient funds")]),
      PaymentJson(TRUE, [error |-> JStr("")]),
      JObj([success |-> JBool(FALSE), error |-> JStr("insufficient funds")]),
      Malformed }

TransactionJson(txid) ==
    JObj([txid |-> JStr(txid), created_at |-> JNum(1), outbound_amount |-> JStr("1"),
          inbound_amount |-> JStr("1"), outbound_account_id |-> JStr("a"),
          inbound_account_id |-> JStr("b"), outbound_uid |-> JNum(1), inbound_uid |-> JNum(2),
          outbound_currency |-> JStr("BTC"), inbound_currency |-> JStr("BTC"),
          exchange_rate |-> JStr("1"), tx_type |-> JStr("internal"), fees |-> JStr("0")])

TxsBodies ==
    { JArr(<<>>),
      JArr(<<TransactionJson("x1")>>),
      JArr(<<TransactionJson("x2"), TransactionJson("x1")>>),
      JArr(<<TransactionJson("x1"), JObj([txid |-> JStr("x2")])>>),
      JObj([error |-> JStr("bad auth")]),
      Malformed }

\* the bodies used when calls run concurrently
ConcCreateWalletBodies == {JObj([username |-> JStr("alice")])}
ConcAuthBodies == {JObj([refresh |-> JStr("r1"), token |-> JStr("t1")])}
ConcAddInvoiceBodies == {InvoiceJson([payment_request |-> JStr("lnbc1valid")])}
ConcBalanceBodies ==
    {JObj([uid |-> JNum(1), accounts |-> JObj([a |-> AccountJson("a", "100")])])}
ConcPayInvoiceBodies == {PaymentJson(FALSE, [error |-> JStr("insufficient funds")])}
ConcTxsBodies == {JArr(<<TransactionJson("x1")>>)}

(***************************************************************************)
(* Initial state and steps                                                 *)
(***************************************************************************)
NoArgs == [none |-> TRUE]

Init ==
    /\ pc = [c \in Calls |-> "idle"]
    /\ op = [c \in Calls |-> "none"]
    /\ args = [c \in Calls |-> NoArgs]
    /\ sent = [c \in Calls |-> <<>>]
    /\ recv = [c \in Calls |-> Pending]
    /\ parsed = [c \in Calls |-> 0]
    /\ result = [c \in Calls |-> Pending]

\* the code of an async operation up to its `.await`
Suspend(c, operation, arguments, request) ==
    /\ pc[c] = "idle"
    /\ pc' = [pc EXCEPT ![c] = "awaiting"]
    /\ op' = [op EXCEPT ![c] = operation]
    /\ args' = [args EXCEPT ![c] = arguments]
    /\ sent' = [sent EXCEPT ![c] = Issue(@, request)]
    /\ UNCHANGED <<recv, parsed, result>>

\* the code of an async operation after its `.await`
Resume(c, operation, response, ret) ==
    /\ pc[c] = "awaiting"
    /\ op[c] = operation
    /\ pc' = [pc EXCEPT ![c] = "returned"]
    /\ recv' = [recv EXCEPT ![c] = response]
    /\ parsed' = [parsed EXCEPT ![c] = from_str_calls(response)]
    /\ result' = [result EXCEPT ![c] = ret]
    /\ UNCHANGED <<op, args, sent>>

create_wallet(c, username, password) ==
    Suspend(c, "create_wallet", [username |-> username, password |-> password],
            create_wallet_request(username, password))

create_wallet_resume(c, response) ==
    Resume(c, "create_wallet", response, create_wallet_ret(response))

auth(c, username, password) ==
    Suspend(c, "auth", [username |-> username, password |-> password],
            auth_request(username, password))

auth_resume(c, response) ==
    Resume(c, "auth", response, auth_ret(response))

create_invoice(c, description, amount, token) ==
    Suspend(c, "create_invoice",
            [description |-> description, amount |-> amount, token |-> token],
            create_invoice_request(description, amount, token))

create_invoice_resume(c, response) ==
    Resume(c, "create_invoice", response, create_invoice_ret(response))

decode_invoice(c, payment_request) ==
    /\ pc[c] = "idle"
    /\ pc' = [pc EXCEPT ![c] = "returned"]
    /\ op' = [op EXCEPT ![c] = "decode_invoice"]
    /\ args' = [args EXCEPT ![c] = [payment_request |-> payment_request]]
    /\ result' = [result EXCEPT ![c] = decode_invoice_ret(payment_request)]
    /\ UNCHANGED <<sent, recv, parsed>>

get_balance(c, token) ==
    Suspend(c, "get_balance", [token |-> token], get_balance_request(token))

get_balance_resume(c, response) ==
    \E order \in BalanceOrders(response) :
        Resume(c, "get_balance", response, get_balance_ret(response, order))

pay_invoice(c, payment_request, token) ==
    Suspend(c, "pay_invoice", [payment_request |-> payment_request, token |-> token],
            pay_invoice_request(payment_request, token))

pay_invoice_resume(c, response) ==
    Resume(c, "pay_invoice", response, pay_invoice_ret(response))

get_txs(c, token) ==
    Suspend(c, "get_txs", [token |-> token], get_txs_request(token))

get_txs_resume(c, response) ==
    Resume(c, "get_txs", response, get_txs_ret(response))

\* the caller takes the returned value; the frame is gone
Release(c) ==
    /\ pc[c] = "returned"
    /\ pc' = [pc EXCEPT ![c] = "idle"]
    /\ op' = [op EXCEPT ![c] = "none"]
    /\ args' = [args EXCEPT ![c] = NoArgs]
    /\ sent' = [sent EXCEPT ![c] = <<>>]
    /\ recv' = [recv EXCEPT ![c] = Pending]
    /\ parsed' = [parsed EXCEPT ![c] = 0]
    /\ result' = [result EXCEPT ![c] = Pending]

\* a caller that starts a call only when no other call is alive
Alone(c) == \A d \in Calls \ {c} : pc[d] = "idle"

(***************************************************************************)
(* Spec: the caller issues its calls one after another, with every input   *)
(* and every transport outcome of the sets above.                          *)
(***************************************************************************)
Next ==
    \E c \in Calls :
        \/ \E u \in Usernames, p \in Passwords : Alone(c) /\ create_wallet(c, u, p)
        \/ \E r \in Outcomes(CreateWalletBodies) : create_wallet_resume(c, r)
        \/ \E u \in Usernames, p \in Passwords : Alone(c) /\ auth(c, u, p)
        \/ \E r \in Outcomes(AuthBodies) : auth_resume(c, r)
        \/ \E d \in Descriptions, a \in Amounts, t \in Tokens :
                Alone(c) /\ create_invoice(c, d, a, t)
        \/ \E r \in Outcomes(AddInvoiceBodies) : create_invoice_resume(c, r)
        \/ \E s \in PaymentRequests : Alone(c) /\ decode_invoice(c, s)
        \/ \E t \in Tokens : Alone(c) /\ get_balance(c, t)
        \/ \E r \in Outcomes(BalanceBodies) : get_balance_resume(c, r)
        \/ \E s \in PaymentRequests, t \in Tokens : Alone(c) /\ pay_invoice(c, s, t)
        \/ \E r \in Outcomes(PayInvoiceBodies) : pay_invoice_resume(c, r)
        \/ \E t \in Tokens : Alone(c) /\ get_txs(c, t)
        \/ \E r \in Outcomes(TxsBodies) : get_txs_resume(c, r)
        \/ Release(c)

Spec == Init /\ [][Next]_vars

(***************************************************************************)
(* SpecConc: the caller issues calls concurrently, in any interleaving.    *)
(***************************************************************************)
NextConc ==
    \E c \in Calls :
        \/ \E u \in Usernames, p \in Passwords : create_wallet(c, u, p)
        \/ \E r \in Outcomes(ConcCreateWalletBodies) : create_wallet_resume(c, r)
        \/ \E u \in Usernames, p \in Passwords : auth(c, u, p)
        \/ \E r \in Outcomes(ConcAuthBodies) : auth_resume(c, r)
        \/ \E d \in Descriptions, a \in ConcAmounts, t \in Tokens : create_invoice(c, d, a, t)
        \/ \E r \in Outcomes(ConcAddInvoiceBodies) : create_invoice_resume(c, r)
        \/ \E s \in ConcPaymentRequests : decode_invoice(c, s)
        \/ \E t \in Tokens : get_balance(c, t)
        \/ \E r \in Outcomes(ConcBalanceBodies) : get_balance_resume(c, r)
        \/ \E s \in ConcPaymentRequests, t \in Tokens : pay_invoice(c, s, t)
        \/ \E r \in Outcomes(ConcPayInvoiceBodies) : pay_invoice_resume(c, r)
        \/ \E t \in Tokens : get_txs(c, t)
        \/ \E r \in Outcomes(ConcTxsBodies) : get_txs_resume(c, r)
        \/ Release(c)

SpecConc == Init /\ [][NextConc]_vars


(***************************************************************************)
(* Vocabulary of the properties                                            *)
(***************************************************************************)
Returned(c, operation) == pc[c] = "returned" /\ op[c] = operation

NetworkOps ==
    {"create_wallet", "auth", "create_invoice", "get_balance", "pay_invoice", "get_txs"}

ResponseType(operation) ==
    CASE operation = "create_wallet" -> "CreateWalletResponse"
      [] operation = "auth" -> "Tokens"
      [] operation = "create_invoice" -> "AddInvoiceResponse"
      [] operation = "get_balance" -> "BalancesResponse"
      [] operation = "pay_invoice" -> "PayInvoiceResponse"
      [] operation = "get_txs" -> "Vec<Transaction>"

\* the frame was resumed with a body that parses into the type its operation expects
WellFormed(c) == recv[c].ok /\ FromStr(ResponseType(op[c]), recv[c].val).ok

\* the JSON object o has a string under key k
HasStr(o, k) == k \in DOMAIN o /\ o[k].t = "str"

\* the Option<String> a JSON object holds under key k (absent and null are None)
JsonOptStr(o, k) == IF HasStr(o, k) THEN Some(o[k].v) ELSE None

NonEmptyStr(o, k) == HasStr(o, k) /\ o[k].v # ""

(***************************************************************************)
(* C1                                                                      *)
(***************************************************************************)
PayFailureCase(c) ==
    /\ Returned(c, "pay_invoice")
    /\ WellFormed(c)
    /\ recv[c].val.t = "obj"
    /\ recv[c].val.o.success = JBool(FALSE) \/ NonEmptyStr(recv[c].val.o, "error")

\* C1 as stated: a well-formed /payinvoice response with success false or a
\* non-empty error makes pay_invoice fail; it is never returned as an Ok value.
C1_FailedPaymentIsNotOk ==
    \A c \in Calls : PayFailureCase(c) => ~result[c].ok

\* C1 amended: for such a response pay_invoice returns Ok with the parsed
\* record, whose success and error fields are those of the body, so that the
\* failure shows in the returned record (success false or error non-empty).
C1_FailedPaymentIsReturnedUnchanged ==
    \A c \in Calls :
        PayFailureCase(c) =>
            /\ result[c].ok
            /\ result[c].val.success = recv[c].val.o.success.b
            /\ result[c].val.error = JsonOptStr(recv[c].val.o, "error")
            /\ \/ result[c].val.success = FALSE
               \/ (result[c].val.error # None /\ result[c].val.error[1] # "")

C1_Witness ==
    \E c \in Calls :
        /\ PayFailureCase(c)
        /\ recv[c].val.o.success = JBool(TRUE)
        /\ result[c].ok

(***************************************************************************)
(* C2                                                                      *)
(***************************************************************************)
CreateWalletCase(c) ==
    /\ Returned(c, "create_wallet")
    /\ recv[c].ok
    /\ recv[c].val.t = "obj"
    /\ \A k \in DOMAIN recv[c].val.o \cap {"username", "error"} : recv[c].val.o[k].t = "str"

IsUsernameVariant(r, o) ==
    r.ok /\ r.val.variant = "Username" /\ r.val.username = o.username.v

IsErrorVariant(r, o) ==
    r.ok /\ r.val.variant = "Error" /\ r.val.error = o.error.v

\* C2 as stated: only "username" gives the Username variant, only "error" the
\* Error variant, and a body with neither key or with both keys gives a decode
\* error.
C2_VariantByExclusiveKey ==
    \A c \in Calls :
        CreateWalletCase(c) =>
            LET o == recv[c].val.o
                u == "username" \in DOMAIN o
                e == "error" \in DOMAIN o
            IN  /\ (u /\ ~e) => IsUsernameVariant(result[c], o)
                /\ (e /\ ~u) => IsErrorVariant(result[c], o)
                /\ (u <=> e) => result[c] = DecodeError

\* C2 amended: a body with "username" gives the Username variant whether or
\* not "error" is present too; a body with "error" and no "username" gives the
\* Error variant; only a body with neither key gives a decode error.
C2_FirstMatchingVariant ==
    \A c \in Calls :
        CreateWalletCase(c) =>
            LET o == recv[c].val.o
                u == "username" \in DOMAIN o
                e == "error" \in DOMAIN o
            IN  /\ u => IsUsernameVariant(result[c], o)
                /\ (e /\ ~u) => IsErrorVariant(result[c], o)
                /\ (~u /\ ~e) => result[c] = DecodeError

C2_Witness ==
    \E c \in Calls :
        /\ CreateWalletCase(c)
        /\ DOMAIN recv[c].val.o = {}
        /\ ~result[c].ok

(***************************************************************************)
(* C3                                                                      *)
(***************************************************************************)
\* C3 as stated: a token pair returned by auth has a non-empty token and a
\* non-empty refresh string.
C3_TokensNonEmpty ==
    \A c \in Calls :
        (Returned(c, "auth") /\ result[c].ok) =>
            result[c].val.token # "" /\ result[c].val.refresh # ""

\* C3 amended: auth returns a pair exactly when the transport call succeeded
\* and the body has strings under "refresh" and "token", and the pair carries
\* those two strings unchanged, empty or not; otherwise it fails.
C3_TokensAsReceived ==
    \A c \in Calls :
        (Returned(c, "auth") /\ (recv[c].ok => recv[c].val.t \in {"obj", "malformed"})) =>
            LET good == /\ recv[c].ok
                        /\ recv[c].val.t = "obj"
                        /\ HasStr(recv[c].val.o, "refresh")
                        /\ HasStr(recv[c].val.o, "token")
            IN  IF good
                THEN result[c] = Ok([refresh |-> recv[c].val.o.refresh.v,
                                     token |-> recv[c].val.o.token.v])
                ELSE ~result[c].ok

C3_Witness ==
    \E c \in Calls :
        /\ Returned(c, "auth")
        /\ result[c].ok
        /\ result[c].val.token = ""
        /\ result[c].val.refresh # ""

(***************************************************************************)
(* C4                                                                      *)
(***************************************************************************)
\* C4: a call frame hands at most one request to the transport, exactly one
\* once a network operation has returned (with a value or with an error), and
\* a pay_invoice frame never has its payment_request in two requests.
C4_AtMostOneRequest ==
    \A c \in Calls :
        /\ Len(sent[c]) <= 1
        /\ (pc[c] = "returned" /\ op[c] \in NetworkOps) => Len(sent[c]) = 1
        /\ op[c] = "pay_invoice" =>
               Cardinality({i \in 1..Len(sent[c]) :
                   /\ sent[c][i].url.path = LNDHUB_ENDPOINT \o "/payinvoice"
                   /\ sent[c][i].body = Some([payment_request |-> args[c].payment_request])}) <= 1

C4_Witness ==
    \E c \in Calls :
        /\ Returned(c, "pay_invoice")
        /\ result[c] = TransportError
        /\ Len(sent[c]) = 1

(***************************************************************************)
(* C5                                                                      *)
(***************************************************************************)
\* C5: a network operation that was resumed with a transport error returns
\* that error and calls no decoder; one resumed with a body that does not
\* parse returns the decode error; a value is returned only when the
\* transport call succeeded and the body parsed.
C5_ErrorsPropagate ==
    \A c \in Calls :
        (pc[c] = "returned" /\ op[c] \in NetworkOps) =>
            /\ ~recv[c].ok => (result[c] = recv[c] /\ parsed[c] = 0)
            /\ (recv[c].ok /\ ~WellFormed(c)) => (result[c] = DecodeError /\ parsed[c] = 1)
            /\ result[c].ok => WellFormed(c)

C5_Witness ==
    \E c \in Calls :
        /\ Returned(c, "get_txs")
        /\ recv[c].ok
        /\ ~WellFormed(c)
        /\ result[c] = DecodeError

(***************************************************************************)
(* C6                                                                      *)
(***************************************************************************)
AccountOf(j) ==
    [account_id |-> j.o.account_id.v, balance |-> j.o.balance.v, currency |-> j.o.currency.v]

\* C6: for a well-formed /balance response get_balance returns a list with
\* one element per key of the accounts map, the elements being the accounts
\* stored under the keys, each key taken once, in some order.
C6_BalanceIsMapValues ==
    \A c \in Calls :
        (Returned(c, "get_balance") /\ WellFormed(c) /\ recv[c].val.t = "obj") =>
            LET accounts == recv[c].val.o.accounts.o
            IN  /\ result[c].ok
                /\ Len(result[c].val) = Cardinality(DOMAIN accounts)
                /\ \E order \in IterationOrders(DOMAIN accounts) :
                       \A i \in 1..Len(order) :
                           result[c].val[i] = AccountOf(accounts[order[i]])

C6_Witness ==
    \E c \in Calls :
        /\ Returned(c, "get_balance")
        /\ WellFormed(c)
        /\ Cardinality(DOMAIN recv[c].val.o.accounts.o) = 3
        /\ result[c].ok
        /\ result[c].val[1] = result[c].val[3]

(***************************************************************************)
(* C7                                                                      *)
(***************************************************************************)
DigitValue(ch) == CHOOSE d \in 0..9 : Digit(d) = ch

RECURSIVE DigitsValue(_)
DigitsValue(s) ==
    IF s = <<>> THEN 0 ELSE 10 * DigitsValue(SubSeq(s, 1, Len(s) - 1)) + DigitValue(s[Len(s)])

\* the decimal text s multiplied by 100,000,000 (s has at most 8 fractional digits)
DecimalTimesSatsPerBtc(s) ==
    LET point == IF \E i \in 1..Len(s) : s[i] = "."
                 THEN CHOOSE i \in 1..Len(s) : s[i] = "."
                 ELSE Len(s) + 1
        whole == SubSeq(s, 1, point - 1)
        frac  == SubSeq(s, point + 1, Len(s))
    IN  DigitsValue(whole) * Pow10(8) + DigitsValue(frac) * Pow10(8 - Len(frac))

\* C7: the amount parameter of the /addinvoice request, multiplied back by
\* 100,000,000, is the amount passed to create_invoice, and the amount
\* 100000000 is sent as "1".
C7_AmountRoundTrips ==
    \A c \in Calls :
        (op[c] = "create_invoice" /\ Len(sent[c]) >= 1) =>
            LET amt_str == sent[c][1].url.query[1][2]
            IN  /\ args[c].amount = 100000000 => amt_str = <<"1">>
                /\ DecimalTimesSatsPerBtc(amt_str) = args[c].amount

(***************************************************************************)
(* C8                                                                      *)
(***************************************************************************)
\* C8: a frame that ran decode_invoice has handed no request to the
\* transport and was never resumed by it, and it returned the invalid-invoice
\* error when its argument is not a well-formed payment request.
C8_DecodeInvoiceIsLocal ==
    \A c \in Calls :
        Returned(c, "decode_invoice") =>
            /\ sent[c] = <<>>
            /\ recv[c] = Pending
            /\ args[c].payment_request \notin WellFormedInvoices =>
                   result[c] = Err("invalid_invoice")
            /\ args[c].payment_request \in WellFormedInvoices => result[c].ok

C8_Witness ==
    \E c \in Calls :
        /\ Returned(c, "decode_invoice")
        /\ args[c].payment_request = "not-an-invoice"
        /\ ~result[c].ok
        /\ sent[c] = <<>>

(***************************************************************************)
(* C9                                                                      *)
(***************************************************************************)
Path(operation) ==
    CASE operation = "create_wallet" -> "/create"
      [] operation = "auth" -> "/auth"
      [] operation = "create_invoice" -> "/addinvoice"
      [] operation = "get_balance" -> "/balance"
      [] operation = "pay_invoice" -> "/payinvoice"
      [] operation = "get_txs" -> "/gettxs"

\* every request of frame c is built from the arguments of frame c
OwnRequests(c) ==
    \A i \in 1..Len(sent[c]) :
        /\ sent[c][i].url.path = LNDHUB_ENDPOINT \o Path(op[c])
        /\ sent[c][i].token =
               (IF op[c] \in {"create_wallet", "auth"} THEN None ELSE Some(args[c].token))
        /\ op[c] \in {"create_wallet", "auth"} =>
               sent[c][i].body = Some([username |-> args[c].username,
                                       password |-> args[c].password])
        /\ op[c] = "pay_invoice" =>
               sent[c][i].body = Some([payment_request |-> args[c].payment_request])
        /\ op[c] = "create_invoice" => sent[c][i].url.query[2] = <<"meta", args[c].description>>

\* what frame c returned is what its operation makes of the response of frame c
OwnResult(c) ==
    (pc[c] = "returned" /\ op[c] \in NetworkOps) =>
        IF ~recv[c].ok THEN result[c] = recv[c]
        ELSE IF ~WellFormed(c) THEN result[c] = DecodeError
        ELSE /\ result[c].ok
             /\ op[c] = "get_balance" =>
                    {result[c].val[i] : i \in 1..Len(result[c].val)} =
                    {AccountOf(recv[c].val.o.accounts.o[k]) : k \in DOMAIN recv[c].val.o.accounts.o}
             /\ op[c] # "get_balance" =>
                    result[c].val = FromStr(ResponseType(op[c]), recv[c].val).val

\* a step changes the fields of one frame only
OneFrameSteps ==
    \A c, d \in Calls :
        (c # d /\ <<pc[c], op[c], args[c], sent[c], recv[c], parsed[c], result[c]>> #
                  <<pc'[c], op'[c], args'[c], sent'[c], recv'[c], parsed'[c], result'[c]>>) =>
            <<pc[d], op[d], args[d], sent[d], recv[d], parsed[d], result[d]>> =
            <<pc'[d], op'[d], args'[d], sent'[d], recv'[d], parsed'[d], result'[d]>>

\* C9: in every interleaving of concurrent calls each frame's requests are
\* built from its own arguments (authenticated requests carry the token
\* passed to that call, /create and /auth carry none), its result is derived
\* from its own response, and no step of one frame changes another frame.
C9_CallsAreIsolated ==
    /\ [](\A c \in Calls : OwnRequests(c) /\ OwnResult(c))
    /\ [][OneFrameSteps]_vars

C9_Witness ==
    \E c, d \in Calls :
        /\ c # d
        /\ pc[c] = "awaiting" /\ op[c] = "get_balance"
        /\ Returned(d, "pay_invoice") /\ result[d].ok
        /\ args[c].token # args[d].token

(***************************************************************************)
(* C10                                                                     *)
(***************************************************************************)
InvoiceFailureCase(c) ==
    /\ Returned(c, "create_invoice")
    /\ WellFormed(c)
    /\ recv[c].val.t = "obj"
    /\ \/ NonEmptyStr(recv[c].val.o, "error")
       \/ (~HasStr(recv[c].val.o, "payment_request") /\ ~HasStr(recv[c].val.o, "error"))

\* C10 as stated: a well-formed /addinvoice response with a non-empty error,
\* or with neither payment_request nor error, makes create_invoice fail; it is
\* never returned as an Ok value.
C10_FailedInvoiceIsNotOk ==
    \A c \in Calls : InvoiceFailureCase(c) => ~result[c].ok

\* C10 amended: for such a response create_invoice returns Ok with the parsed
\* record, whose error and payment_request fields are those of the body (None
\* when absent); the caller sees the failure in those two fields only.
C10_FailedInvoiceIsReturnedUnchanged ==
    \A c \in Calls :
        InvoiceFailureCase(c) =>
            /\ result[c].ok
            /\ result[c].val.error = JsonOptStr(recv[c].val.o, "error")
            /\ result[c].val.payment_request = JsonOptStr(recv[c].val.o, "payment_request")

C10_Witness ==
    \E c \in Calls :
        /\ InvoiceFailureCase(c)
        /\ NonEmptyStr(recv[c].val.o, "error")
        /\ result[c].ok
        /\ result[c].val.payment_request = None

====
